---- MODULE Spec2Model ----
(***************************************************************************)
(* A model of the Open Insights core module (src/src/index.ts): init,      *)
(* startLater and start, run for one RUM session.                          *)
(*                                                                         *)
(* Providers are identified by their position in settings.providers.      *)
(* The source indexes that array from 0; sequences here start at 1, so    *)
(* source index i is position i + 1 of the model.  A configuration         *)
(* container (ExecutableContainer) is identified by the provider whose     *)
(* fetchSessionConfig produced it.                                         *)
(***************************************************************************)
EXTENDS Integers, Sequences, FiniteSets, TLC

\* Largest number of providers in settings.providers.
MaxProviders == 3
\* Largest preConfigStartDelay, in clock ticks.
MaxDelay == 2

VARIABLES
    settings,       \* the ClientSettings passed to init (read only)
    pc,             \* where the session is suspended
    docReady,       \* whether the readiness notifier has fired
    readyAtInit,    \* whether it had fired already when init was called
    timers,         \* number of setTimeout calls made
    timerFired,     \* number of timer callbacks run
    elapsed,        \* clock ticks since the timer was scheduled
    promises,       \* the array handed to Promise.allSettled
    settleOrder,    \* the positions of `promises` in the order they settled
    calls,          \* every provider capability invoked so far, in order
    sessionConfig,  \* per provider: the container given to setSessionConfig
    executables,    \* per container: its `executables` property
    attached,       \* per container: number of assignments to `executables`
    processCalls,   \* number of invocations of the processing function
    processFn,      \* which processing function was invoked, if any
    processArg,     \* what the processing function received
    startPromise,   \* the deferred result of start
    initPromise     \* the deferred result of init

vars == <<settings, pc, docReady, readyAtInit, timers, timerFired, elapsed, promises,
          settleOrder, calls, sessionConfig, executables, attached, processCalls,
          processFn, processArg, startPromise, initPromise>>

----------------------------------------------------------------------------
(* Values *)

\* The value of a promise that has none yet.
NoValue == [kind |-> "none", from |-> <<>>]

Pending == [state |-> "pending", value |-> NoValue]
Fulfilled(v) == [state |-> "fulfilled", value |-> v]
Rejected(r) == [state |-> "rejected", value |-> r]

\* The reason provider p's fetchSessionConfig rejects with.
FetchError(p) == [kind |-> "fetchError", from |-> <<p>>]
\* The reason a failing override processing function rejects or throws with.
ProcessError == [kind |-> "processError", from |-> <<>>]
\* The SessionResult of a succeeding override processing function.
OverrideResult == [kind |-> "overrideResult", from |-> <<>>]
\* The SessionResult of the default processing function.
DefaultResult == [kind |-> "defaultResult", from |-> <<>>]

\* One invocation of a provider capability: args is <<>> or the one argument.
Call(op, p, args) == [op |-> op, provider |-> p, args |-> args]

Indices(n) == [i \in 1..n |-> i]

\* ClientSettings.preConfigStartDelay is optional: <<>> when absent, <<d>> when d.
DelayValues == {<<>>} \cup {<<d>> : d \in 0..MaxDelay}

\* ClientSettings.sessionProcess is optional; an override is described by what
\* it does when called.
ProcessValues == {"absent", "fulfils", "rejects", "throws"}

\* A provider is described by what shouldRun returns and how its fetch settles.
ProviderValues == [shouldRun : BOOLEAN, fetchOk : BOOLEAN]

ProviderLists == UNION {[1..n -> ProviderValues] : n \in 0..MaxProviders}

----------------------------------------------------------------------------
(* init: the branch on settings.preConfigStartDelay *)

\* Variant: the callback is run without waiting for the notifier.
NotGated(ready) == TRUE

\* whenReady().then(...): the callback runs only once the notifier has fired,
\* also when it had fired before init was called.
WhenReadyResolved(ready) == ready

\* Variant: the branch tests for presence, so a delay of 0 takes the timer path.
DelayPresent(d) == d # <<>>

\* JavaScript truthiness of settings.preConfigStartDelay.
DelayTruthy(d) == d # <<>> /\ d[1] # 0

----------------------------------------------------------------------------
(* start: the synchronous part *)

\* Variant: the eligibility filter is left out.
EligibleUnfiltered(provs) == Indices(Len(provs))

\* settings.providers.filter((provider) => provider.shouldRun())
Eligible(provs) == SelectSeq(Indices(Len(provs)), LAMBDA p : provs[p].shouldRun)

\* The shouldRun calls the filter makes, one per provider, in order.
ShouldRunCalls(provs) == [p \in 1..Len(provs) |-> Call("shouldRun", p, <<>>)]

\* The fetchSessionConfig calls the map makes, one per eligible provider.
FetchCalls(el) == [k \in 1..Len(el) |-> Call("fetchSessionConfig", el[k], <<>>)]

\* Variant: one pass over the providers, fetching from each as soon as its
\* shouldRun has returned true.
RECURSIVE InterleavedStartCalls(_)
InterleavedStartCalls(provs) ==
    IF provs = <<>> THEN <<>>
    ELSE LET p == Len(provs)
             front == InterleavedStartCalls(SubSeq(provs, 1, p - 1))
         IN  IF provs[p].shouldRun
             THEN front \o <<Call("shouldRun", p, <<>>), Call("fetchSessionConfig", p, <<>>)>>
             ELSE front \o <<Call("shouldRun", p, <<>>)>>

\* The calls of .filter(...).map(...): filter runs over the whole array before
\* map starts.
StartCalls(provs) == ShouldRunCalls(provs) \o FetchCalls(Eligible(provs))

\* The promises the map collects, all pending.
StartedFetches(el) == [k \in 1..Len(el) |-> [provider |-> el[k], status |-> "pending"]]

----------------------------------------------------------------------------
(* start: the join and its callback *)

\* Variant: Promise.race in place of the join, ready at the first settled fetch.
FirstHasSettled(ps) == \E k \in 1..Len(ps) : ps[k].status # "pending"

\* Promise.allSettled: ready once every promise has settled.
AllHaveSettled(ps) == \A k \in 1..Len(ps) : ps[k].status # "pending"

\* Variant: Promise.all in place of Promise.allSettled, rejecting with the
\* reason of a rejected fetch.
PromiseAll(ps) ==
    IF \E k \in 1..Len(ps) : ps[k].status = "rejected"
    THEN LET k == CHOOSE j \in 1..Len(ps) : ps[j].status = "rejected"
         IN  [state |-> "rejected", reason |-> FetchError(ps[k].provider), settled |-> ps]
    ELSE [state |-> "fulfilled", reason |-> NoValue, settled |-> ps]

\* What Promise.allSettled resolves to: never a rejection.
AllSettled(ps) == [state |-> "fulfilled", reason |-> NoValue, settled |-> ps]

\* Variant: the test on the settled status is inverted.
RejectedValues(settled) ==
    LET kept == SelectSeq(settled, LAMBDA r : r.status = "rejected")
    IN  [k \in 1..Len(kept) |-> kept[k].provider]

\* Variant: the values are collected as the fetches settle, not by position.
ValuesInSettleOrder(settled) ==
    LET ord == SelectSeq(settleOrder, LAMBDA k : settled[k].status = "fulfilled")
    IN  [j \in 1..Len(ord) |-> settled[ord[j]].provider]

\* Variant: the filter on the settled status is left out.
SettledValues(settled) == [k \in 1..Len(settled) |-> settled[k].provider]

\* settled.filter((r) => r.status === "fulfilled").map((r) => r.value)
FulfilledValues(settled) ==
    LET kept == SelectSeq(settled, LAMBDA r : r.status = "fulfilled")
    IN  [k \in 1..Len(kept) |-> kept[k].provider]

\* Variant: every configuration is given to the first provider.
LookupFirst(i, provs) == 1

\* Variant: the array is indexed from its end.
LookupFromEnd(i, provs) == Len(provs) - i + 1

\* const p = settings.providers[i], for the i-th element of sessionConfigs.
LookupProvider(i, provs) == i

\* p.expandTasks(): the provider's own ordered sequence of Executables.
ExpandTasks(p) == <<[owner |-> p]>>

\* Variant: the tasks are expanded before the configuration is handed back.
ExpandBeforeSet(st, v, i, provs) ==
    LET p == LookupProvider(i, provs)
    IN  [calls |-> st.calls \o <<Call("expandTasks", p, <<>>), Call("setSessionConfig", p, <<v>>)>>,
         sessionConfig |-> [st.sessionConfig EXCEPT ![p] = <<v>>],
         executables |-> [st.executables EXCEPT ![v] = ExpandTasks(p)],
         attached |-> [st.attached EXCEPT ![v] = @ + 1]]

\* One iteration of sessionConfigs.forEach((v, i) => ...).
ForEachBody(st, v, i, provs) ==
    LET p == LookupProvider(i, provs)
    IN  [calls |-> st.calls \o <<Call("setSessionConfig", p, <<v>>), Call("expandTasks", p, <<>>)>>,
         sessionConfig |-> [st.sessionConfig EXCEPT ![p] = <<v>>],
         executables |-> [st.executables EXCEPT ![v] = ExpandTasks(p)],
         attached |-> [st.attached EXCEPT ![v] = @ + 1]]

RECURSIVE ForEach(_, _, _, _)
ForEach(st, configs, i, provs) ==
    IF i > Len(configs) THEN st
    ELSE ForEach(ForEachBody(st, configs[i], i, provs), configs, i + 1, provs)

\* Variant: the override is ignored.
AlwaysDefault(s) == "default"

\* const process = settings.sessionProcess || defaultSessionProcessFunc
ChosenProcess(s) == IF s.sessionProcess = "absent" THEN "default" ELSE "override"

\* What the chosen function does when called.
ProcessBehaviour(s) == IF ChosenProcess(s) = "default" THEN "fulfils" ELSE s.sessionProcess

\* What the chosen processing function's deferred result settles to.
ProcessOutcome(s) ==
    IF ChosenProcess(s) = "default" THEN Fulfilled(DefaultResult)
    ELSE IF s.sessionProcess = "fulfils" THEN Fulfilled(OverrideResult)
    ELSE Rejected(ProcessError)

----------------------------------------------------------------------------
(* startLater and init: how start's result reaches init's result *)

\* Variant: the timer callback resolves without passing the result on.
StartLaterResolvesEmpty(sp) == IF sp.state = "fulfilled" THEN Fulfilled(NoValue) ELSE Pending

\* startLater: start(settings).then((result) => resolve(result))
StartLaterResult(sp) == IF sp.state = "fulfilled" THEN Fulfilled(sp.value) ELSE Pending

\* init on the immediate path: the then-callback returns start's promise.
ImmediateResult(sp) == sp

InitResult(s, sp) ==
    IF DelayTruthy(s.preConfigStartDelay) THEN StartLaterResult(sp) ELSE ImmediateResult(sp)

----------------------------------------------------------------------------
(* Actions *)

Init ==
    /\ settings \in [providers : ProviderLists,
                     preConfigStartDelay : DelayValues,
                     sessionProcess : ProcessValues]
    /\ pc = "idle"
    /\ docReady = FALSE
    /\ readyAtInit = FALSE
    /\ timers = 0
    /\ timerFired = 0
    /\ elapsed = 0
    /\ promises = <<>>
    /\ settleOrder = <<>>
    /\ calls = <<>>
    /\ sessionConfig = [p \in 1..Len(settings.providers) |-> <<>>]
    /\ executables = [c \in 1..Len(settings.providers) |-> <<>>]
    /\ attached = [c \in 1..Len(settings.providers) |-> 0]
    /\ processCalls = 0
    /\ processFn = "none"
    /\ processArg = <<>>
    /\ startPromise = Pending
    /\ initPromise = Pending

\* The tag owner calls init(settings): whenReady().then(...) is registered.
CallInit ==
    /\ pc = "idle"
    /\ pc' = "waitReady"
    /\ readyAtInit' = docReady
    /\ UNCHANGED <<settings, docReady, timers, timerFired, elapsed, promises,
                   settleOrder, calls, sessionConfig, executables, attached,
                   processCalls, processFn, processArg, startPromise, initPromise>>

\* The hosting document becomes ready: the notifier fires, once.
DocumentReady ==
    /\ ~docReady
    /\ docReady' = TRUE
    /\ UNCHANGED <<settings, pc, readyAtInit, timers, timerFired, elapsed, promises,
                   settleOrder, calls, sessionConfig, executables, attached,
                   processCalls, processFn, processArg, startPromise, initPromise>>

\* start(settings) up to the point where it waits on Promise.allSettled.
StartSync ==
    LET el == Eligible(settings.providers)
    IN  /\ calls' = calls \o StartCalls(settings.providers)
        /\ promises' = StartedFetches(el)
        /\ pc' = "waitFetch"

\* init's then-callback, run once the notifier has fired.
ReadyThen ==
    /\ pc = "waitReady"
    /\ WhenReadyResolved(docReady)
    /\ \/ /\ DelayTruthy(settings.preConfigStartDelay)
          /\ timers' = timers + 1
          /\ elapsed' = 0
          /\ pc' = "waitTimer"
          /\ UNCHANGED <<promises, calls>>
       \/ /\ ~DelayTruthy(settings.preConfigStartDelay)
          /\ StartSync
          /\ UNCHANGED <<timers, elapsed>>
    /\ UNCHANGED <<settings, docReady, readyAtInit, timerFired, settleOrder,
                   sessionConfig, executables, attached, processCalls, processFn,
                   processArg, startPromise, initPromise>>

\* Wall-clock time passes while the timer is pending.
Tick ==
    /\ pc = "waitTimer"
    /\ elapsed < settings.preConfigStartDelay[1]
    /\ elapsed' = elapsed + 1
    /\ UNCHANGED <<settings, pc, docReady, readyAtInit, timers, timerFired, promises,
                   settleOrder, calls, sessionConfig, executables, attached,
                   processCalls, processFn, processArg, startPromise, initPromise>>

\* The setTimeout callback of startLater.
TimerFire ==
    /\ pc = "waitTimer"
    /\ elapsed >= settings.preConfigStartDelay[1]
    /\ timerFired' = timerFired + 1
    /\ StartSync
    /\ UNCHANGED <<settings, docReady, readyAtInit, timers, elapsed, settleOrder,
                   sessionConfig, executables, attached, processCalls, processFn,
                   processArg, startPromise, initPromise>>

\* The k-th fetch settles, as its provider decides.
FetchSettle(k) ==
    /\ k \in 1..Len(promises)
    /\ promises[k].status = "pending"
    /\ promises' = [promises EXCEPT ![k].status =
                        IF settings.providers[promises[k].provider].fetchOk
                        THEN "fulfilled" ELSE "rejected"]
    /\ settleOrder' = Append(settleOrder, k)
    /\ UNCHANGED <<settings, pc, docReady, readyAtInit, timers, timerFired, elapsed,
                   calls, sessionConfig, executables, attached, processCalls,
                   processFn, processArg, startPromise, initPromise>>

\* The callback given to Promise.allSettled(...).then, up to the call of the
\* processing function.
AllSettledThen ==
    /\ pc = "waitFetch"
    /\ AllHaveSettled(promises)
    /\ LET joined == AllSettled(promises)
           sessionConfigs == FulfilledValues(joined.settled)
           st == ForEach([calls |-> calls, sessionConfig |-> sessionConfig,
                          executables |-> executables, attached |-> attached],
                         sessionConfigs, 1, settings.providers)
       IN  IF joined.state = "rejected"
           THEN /\ startPromise' = Rejected(joined.reason)
                /\ initPromise' = InitResult(settings, startPromise')
                /\ pc' = "done"
                /\ UNCHANGED <<calls, sessionConfig, executables, attached,
                               processCalls, processFn, processArg>>
           ELSE /\ calls' = st.calls
                /\ sessionConfig' = st.sessionConfig
                /\ executables' = st.executables
                /\ attached' = st.attached
                /\ processCalls' = processCalls + 1
                /\ processFn' = ChosenProcess(settings)
                /\ processArg' = [k \in 1..Len(sessionConfigs) |->
                                     [config |-> sessionConfigs[k],
                                      executables |-> st.executables[sessionConfigs[k]]]]
                /\ IF ProcessBehaviour(settings) = "throws"
                   THEN /\ startPromise' = Rejected(ProcessError)
                        /\ initPromise' = InitResult(settings, startPromise')
                        /\ pc' = "done"
                   ELSE /\ pc' = "waitProcess"
                        /\ UNCHANGED <<startPromise, initPromise>>
    /\ UNCHANGED <<settings, docReady, readyAtInit, timers, timerFired, elapsed,
                   promises, settleOrder>>

\* The processing function's deferred result settles; start's result follows
\* it, and init's result follows start's.
ProcessSettle ==
    /\ pc = "waitProcess"
    /\ startPromise' = ProcessOutcome(settings)
    /\ initPromise' = InitResult(settings, startPromise')
    /\ pc' = "done"
    /\ UNCHANGED <<settings, docReady, readyAtInit, timers, timerFired, elapsed,
                   promises, settleOrder, calls, sessionConfig, executables, attached,
                   processCalls, processFn, processArg>>

Next ==
    \/ CallInit
    \/ DocumentReady
    \/ ReadyThen
    \/ Tick
    \/ TimerFire
    \/ \E k \in 1..Len(promises) : FetchSettle(k)
    \/ AllSettledThen
    \/ ProcessSettle

Spec == Init /\ [][Next]_vars

\* The event loop runs every callback that is ready, and the notifier, the
\* timer, the fetches and the processing function are assumed to settle.
FairSpec == Spec /\ WF_vars(Next)

\* Under that scheduling every session reaches its end.
SessionEnds == <>(pc = "done")

----------------------------------------------------------------------------
(* Properties *)

Providers == 1..Len(settings.providers)

\* The positions in `calls` of the invocations of capability op on provider p.
CallsOf(op, p) == {i \in 1..Len(calls) : calls[i].op = op /\ calls[i].provider = p}

\* Provider p was eligible and its fetch succeeds.
Succeeds(p) == settings.providers[p].shouldRun /\ settings.providers[p].fetchOk

\* The providers that succeed, in settings order.
Succeeded == SelectSeq(Indices(Len(settings.providers)), LAMBDA p : Succeeds(p))

\* The callback of the join has run (the mutation phase is over).
Dispatched == pc \in {"waitProcess", "done"}

\* C1: every configuration passed to setSessionConfig is passed to the provider
\* whose own fetchSessionConfig produced it.
C1_ConfigGoesToOriginatingProvider ==
    \A i \in 1..Len(calls) :
        calls[i].op = "setSessionConfig" => calls[i].args = <<calls[i].provider>>

\* C2: each container handed to the processing function carries as executables
\* the expandTasks() output of the provider that fetched it.
C2_ExecutablesOfFetchingProvider ==
    \A k \in 1..Len(processArg) :
        processArg[k].executables = <<[owner |-> processArg[k].config]>>

\* C3: the processing function is invoked exactly once, with exactly the
\* containers of the fetches that succeeded, in settings order (an empty
\* sequence when none succeeded).
C3_ProcessedExactlyTheSucceeded ==
    /\ processCalls <= 1
    /\ processCalls = 0 => processArg = <<>>
    /\ Dispatched =>
          /\ processCalls = 1
          /\ [k \in 1..Len(processArg) |-> processArg[k].config] = Succeeded

\* C3 witness: dispatched with two containers, the fetch of the provider
\* between them having failed.
C3_Witness ==
    /\ Dispatched
    /\ Len(processArg) = 2
    /\ Len(settings.providers) = 3
    /\ settings.providers[2].shouldRun
    /\ ~settings.providers[2].fetchOk

\* C4: on a provider whose shouldRun returns false, none of fetchSessionConfig,
\* setSessionConfig and expandTasks is invoked.
C4_IneligibleProviderUntouched ==
    \A p \in Providers :
        ~settings.providers[p].shouldRun =>
            /\ CallsOf("fetchSessionConfig", p) = {}
            /\ CallsOf("setSessionConfig", p) = {}
            /\ CallsOf("expandTasks", p) = {}

\* C5: setSessionConfig and expandTasks are invoked exactly once on each
\* eligible provider whose fetch succeeded, and on no other provider.
C5_SetAndExpandIffFetchSucceeded ==
    \A p \in Providers :
        /\ ~Succeeds(p) =>
              /\ CallsOf("setSessionConfig", p) = {}
              /\ CallsOf("expandTasks", p) = {}
        /\ (Succeeds(p) /\ Dispatched) =>
              /\ Cardinality(CallsOf("setSessionConfig", p)) = 1
              /\ Cardinality(CallsOf("expandTasks", p)) = 1

\* C6: when the processing function's deferred result has rejected with a
\* reason, init's deferred result is rejected with that reason, with and
\* without a start delay.
C6_ProcessRejectionReachesInit ==
    (pc = "done" /\ settings.sessionProcess = "rejects") =>
        initPromise = Rejected(ProcessError)

\* C7: fetch failures are absorbed: start's and init's results reject only
\* when the processing function was invoked and failed, never with a fetch
\* failure's reason, and every succeeding provider's container reaches the
\* processing function whatever its siblings' fetches did.
C7_FetchFailuresAbsorbed ==
    /\ \A pr \in {startPromise, initPromise} :
          pr.state = "rejected" =>
              /\ processCalls = 1
              /\ settings.sessionProcess \in {"rejects", "throws"}
              /\ pr.value = ProcessError
    /\ Dispatched =>
          /\ processCalls = 1
          /\ \A p \in Providers :
                Succeeds(p) => \E k \in 1..Len(processArg) : processArg[k].config = p

\* C7 witness: a session that ended fulfilled although a fetch failed, with a
\* sibling's container processed.
C7_Witness ==
    /\ pc = "done"
    /\ initPromise.state = "fulfilled"
    /\ \E k \in 1..Len(promises) : promises[k].status = "rejected"
    /\ Len(processArg) >= 1

\* C8: while any eligible provider's fetch is pending there has been no
\* setSessionConfig call, no expandTasks call, no attachment of executables
\* and no invocation of the processing function.
C8_JoinBarrier ==
    (\E k \in 1..Len(promises) : promises[k].status = "pending") =>
        /\ \A i \in 1..Len(calls) : calls[i].op \notin {"setSessionConfig", "expandTasks"}
        /\ \A c \in Providers : attached[c] = 0 /\ executables[c] = <<>>
        /\ processCalls = 0
        /\ pc = "waitFetch"

\* C8 witness: one fetch has fulfilled while another is still pending.
C8_Witness ==
    \E j, k \in 1..Len(promises) :
        promises[j].status = "fulfilled" /\ promises[k].status = "pending"

\* C9: with a positive preConfigStartDelay exactly one timer is scheduled, after
\* readiness, and no provider capability is invoked before it has fired (its
\* delay elapsed); with a delay of 0 or none, no timer is ever scheduled and
\* the orchestrator starts in the readiness callback itself.
C9_StartDelay ==
    LET d == settings.preConfigStartDelay
    IN  IF d # <<>> /\ d[1] > 0
        THEN /\ timers <= 1
             /\ timerFired <= timers
             /\ timers = 1 => docReady
             /\ pc \notin {"idle", "waitReady"} => timers = 1
             /\ calls # <<>> => timerFired = 1 /\ elapsed >= d[1]
        ELSE /\ timers = 0
             /\ timerFired = 0
             /\ pc # "waitTimer"
             /\ pc \notin {"idle", "waitReady"} => docReady

\* C9 witness: a delayed session whose providers have been asked.
C9_Witness ==
    /\ settings.preConfigStartDelay = <<MaxDelay>>
    /\ timerFired = 1
    /\ calls # <<>>

\* C10: with no eligible provider the processing function is invoked exactly
\* once, with an empty sequence, init's result is what it produces, and no
\* fetchSessionConfig, setSessionConfig or expandTasks call is made.
C10_NoEligibleProvider ==
    (\A p \in Providers : ~settings.providers[p].shouldRun) =>
        /\ \A i \in 1..Len(calls) : calls[i].op = "shouldRun"
        /\ processCalls <= 1
        /\ processArg = <<>>
        /\ Dispatched => processCalls = 1
        /\ (pc = "done" /\ settings.sessionProcess \in {"absent", "fulfils"}) =>
              initPromise.state = "fulfilled"

\* C10 witness: a finished session over providers none of which should run.
C10_Witness ==
    /\ pc = "done"
    /\ Len(settings.providers) >= 1
    /\ \A p \in Providers : ~settings.providers[p].shouldRun
    /\ processCalls = 1
    /\ initPromise.state = "fulfilled"

\* The example of the specification: A runs and its fetch succeeds, B does not
\* run, C runs and its fetch fails, and no override processing function.
IsExample ==
    /\ Len(settings.providers) = 3
    /\ settings.providers[1].shouldRun /\ settings.providers[1].fetchOk
    /\ ~settings.providers[2].shouldRun
    /\ settings.providers[3].shouldRun /\ ~settings.providers[3].fetchOk
    /\ settings.sessionProcess = "absent"

\* C11: in the example the default processing function is called with exactly
\* the one-element sequence [Ca with executables = A's tasks], setSessionConfig(Ca)
\* is called on A, and nothing beyond shouldRun is called on B.
C11_EndToEndExample ==
    IsExample =>
        /\ \A i \in 1..Len(calls) : calls[i].provider = 2 => calls[i].op = "shouldRun"
        /\ \A i \in 1..Len(calls) :
              calls[i].op = "setSessionConfig" =>
                  calls[i].provider = 1 /\ calls[i].args = <<1>>
        /\ processFn \in {"none", "default"}
        /\ Dispatched =>
              /\ processFn = "default"
              /\ processCalls = 1
              /\ processArg = <<[config |-> 1, executables |-> <<[owner |-> 1]>>]>>
              /\ Cardinality(CallsOf("setSessionConfig", 1)) = 1

\* C11 witness: the example session, finished.
C11_Witness == IsExample /\ pc = "done" /\ processCalls = 1

\* C12: no provider capability is invoked and no timer is scheduled before the
\* readiness notifier has fired; and an init call made when the notifier had
\* already fired is not left waiting: its callback can run.
C12_ReadinessGating ==
    /\ (calls # <<>> \/ timers > 0 \/ pc \notin {"idle", "waitReady"}) => docReady
    /\ (pc = "waitReady" /\ readyAtInit) => ENABLED ReadyThen

\* C12 witness: init was called after readiness and the session went on to ask
\* its providers.
C12_Witness == readyAtInit /\ calls # <<>>

\* C13: no capability is invoked more than once on the same provider: once
\* start has run, shouldRun exactly once on each configured provider and
\* fetchSessionConfig exactly once on each eligible provider and on no other;
\* setSessionConfig and expandTasks at most once on each provider.
C13_EachCapabilityAtMostOnce ==
    \A p \in Providers :
        /\ Cardinality(CallsOf("shouldRun", p)) <= 1
        /\ Cardinality(CallsOf("fetchSessionConfig", p)) <= 1
        /\ Cardinality(CallsOf("setSessionConfig", p)) <= 1
        /\ Cardinality(CallsOf("expandTasks", p)) <= 1
        /\ pc \in {"waitFetch", "waitProcess", "done"} =>
              /\ Cardinality(CallsOf("shouldRun", p)) = 1
              /\ Cardinality(CallsOf("fetchSessionConfig", p)) =
                    (IF settings.providers[p].shouldRun THEN 1 ELSE 0)

\* C13 witness: a finished delayed session in which two configurations were
\* handed back and one provider was not eligible.
C13_Witness ==
    /\ pc = "done"
    /\ timerFired = 1
    /\ Len(processArg) = 2
    /\ \E p \in Providers : ~settings.providers[p].shouldRun

\* C14: a session terminates with init's deferred result settled: once the
\* notifier and the timer have fired, every fetch has settled and the
\* processing function has settled or thrown (pc = "done", after which no step
\* is left), init's result is fulfilled or rejected, not pending.
C14_InitSettledWhenSessionEnds ==
    pc = "done" => initPromise.state \in {"fulfilled", "rejected"}

\* The positions in `calls` of the calls that act on a fetch result.
MutationCalls == {i \in 1..Len(calls) : calls[i].op \in {"setSessionConfig", "expandTasks"}}

\* C15: the shouldRun calls, one per configured provider in settings order,
\* all come before the first fetchSessionConfig call, and fetchSessionConfig
\* has been called on every eligible provider before any fetch result is acted
\* on.
C15_FilterBeforeFetchBeforeUse ==
    /\ \A i, j \in 1..Len(calls) :
          (i < j /\ calls[j].op = "shouldRun") => calls[i].op = "shouldRun"
    /\ \A i \in 1..Len(calls) : calls[i].op = "shouldRun" => calls[i].provider = i
    /\ (\E i \in 1..Len(calls) : calls[i].op = "fetchSessionConfig") =>
          \A p \in Providers : CallsOf("shouldRun", p) # {}
    /\ \A i, j \in 1..Len(calls) :
          (i < j /\ calls[j].op = "fetchSessionConfig") => i \notin MutationCalls
    /\ (MutationCalls # {} \/ processCalls > 0) =>
          \A p \in Providers :
              settings.providers[p].shouldRun => CallsOf("fetchSessionConfig", p) # {}

\* C15 witness: fetches are under way on two providers, a third not being
\* eligible.
C15_Witness ==
    /\ pc = "waitFetch"
    /\ Len(promises) = 2
    /\ Len(settings.providers) = 3
    /\ settings.providers[1].shouldRun

\* The calls that act on fetch results, in order.
MutationLog == SelectSeq(calls, LAMBDA c : c.op \in {"setSessionConfig", "expandTasks"})

\* C16: for the k-th container of the dispatched sequence, in sequence order,
\* setSessionConfig is called with it, then expandTasks on the same provider,
\* and its executables are assigned exactly once, to that output; nothing of
\* this happens after the processing function is invoked, which is never
\* invoked before, and it sees every container with its executables.
C16_MutationPhaseOrder ==
    /\ ~Dispatched => processCalls = 0
    /\ Dispatched =>
          /\ Len(MutationLog) = 2 * Len(processArg)
          /\ \A k \in 1..Len(processArg) :
                LET set == MutationLog[2 * k - 1]
                    exp == MutationLog[2 * k]
                    c == processArg[k].config
                IN  /\ set.op = "setSessionConfig"
                    /\ set.args = <<c>>
                    /\ exp.op = "expandTasks"
                    /\ exp.provider = set.provider
                    /\ attached[c] = 1
                    /\ executables[c] = <<[owner |-> exp.provider]>>
                    /\ processArg[k].executables = executables[c]
          /\ \A c \in Providers :
                (\A k \in 1..Len(processArg) : processArg[k].config # c) => attached[c] = 0

\* C16 witness: two containers were dispatched.
C16_Witness == Dispatched /\ Len(processArg) >= 2 /\ processCalls = 1

\* C17: the override is the function invoked if and only if
\* settings.sessionProcess is supplied, and when the invoked function fulfils
\* with a value, init's result (and start's) is fulfilled with exactly that
\* value, on the immediate and on the delayed path.
C17_ResultPassThrough ==
    LET chosen == IF settings.sessionProcess = "absent" THEN "default" ELSE "override"
        v == IF settings.sessionProcess = "absent" THEN DefaultResult ELSE OverrideResult
    IN  /\ processFn \in {"none", chosen}
        /\ Dispatched => processFn = chosen
        /\ (pc = "done" /\ settings.sessionProcess \in {"absent", "fulfils"}) =>
              /\ startPromise = [state |-> "fulfilled", value |-> v]
              /\ initPromise = [state |-> "fulfilled", value |-> v]
        /\ initPromise.state = "fulfilled" => initPromise.value = v

\* C17 witness: a delayed session whose override fulfilled.
C17_Witness ==
    /\ pc = "done"
    /\ timerFired = 1
    /\ settings.sessionProcess = "fulfils"
    /\ initPromise.state = "fulfilled"

\* C18: the sequence passed to the processing function, the providers on
\* which setSessionConfig and expandTasks are called and the configuration
\* each receives are determined by the shouldRun results and fetch outcomes
\* alone: they are the same in whatever order the fetches settled.
C18_SettleOrderIrrelevant ==
    LET n == Len(Succeeded)
    IN  Dispatched =>
          /\ processArg = [k \in 1..n |->
                              [config |-> Succeeded[k], executables |-> <<[owner |-> k]>>]]
          /\ sessionConfig = [p \in Providers |-> IF p <= n THEN <<Succeeded[p]>> ELSE <<>>]
          /\ \A p \in Providers :
                /\ CallsOf("setSessionConfig", p) # {} <=> p <= n
                /\ CallsOf("expandTasks", p) # {} <=> p <= n
                /\ \A i \in CallsOf("setSessionConfig", p) : calls[i].args = <<Succeeded[p]>>

\* C18 witness: two fetches fulfilled, the later provider's first.
C18_Witness ==
    /\ Dispatched
    /\ \E a, b \in 1..Len(settleOrder) :
          /\ a < b
          /\ settleOrder[a] > settleOrder[b]
          /\ promises[settleOrder[a]].status = "fulfilled"
          /\ promises[settleOrder[b]].status = "fulfilled"

\* C19: the provider lookup stays in range: every call is on a configured
\* provider, the number k of fulfilled fetches is at most the number of
\* eligible providers, which is at most the length of settings.providers, and
\* the providers that receive setSessionConfig and expandTasks are exactly the
\* first k of settings.providers.
C19_LookupInRange ==
    LET k == Cardinality({j \in 1..Len(promises) : promises[j].status = "fulfilled"})
    IN  /\ \A i \in 1..Len(calls) : calls[i].provider \in Providers
        /\ k <= Len(promises)
        /\ Len(promises) <= Len(settings.providers)
        /\ MutationCalls # {} => Dispatched
        /\ Dispatched =>
              /\ Len(processArg) = k
              /\ {p \in Providers : CallsOf("setSessionConfig", p) # {}} = 1..k
              /\ {p \in Providers : CallsOf("expandTasks", p) # {}} = 1..k

\* C19 witness: one fulfilled fetch among two eligible providers out of three.
C19_Witness ==
    /\ Dispatched
    /\ Len(processArg) = 1
    /\ Len(promises) = 2
    /\ Len(settings.providers) = 3

====
